---- MODULE Spec2Model ----
(***************************************************************************)
(* Rotation-to-zone mapping, damped rotation, input controls and frame loop *)
(* of zayd.world:                                                          *)
(*   Zones            src/src/components/Controls.js (lines 84-165)        *)
(*   Controls         src/src/components/Controls.js (lines 1-77)          *)
(*   normalizeAngle,                                                       *)
(*   dampAngle        src/src/utils/physics.js                             *)
(*   App              src/src/app.js                                       *)
(*   locations        src/src/locations/*.js                               *)
(*                                                                         *)
(* Numbers.  The JavaScript works on doubles.  The model works in exact    *)
(* arithmetic on a grid: an angle is an integer number of ticks, with      *)
(* UnitsPerDeg ticks to the degree, so Math.PI is 180 * UnitsPerDeg ticks  *)
(* and the conversion deg * Math.PI / 180 is exact.  The product           *)
(* smoothing * delta is an integer number of units of ln 2, so that        *)
(* Math.exp(-smoothing * delta) is exactly 2^-(smoothing * delta); a tick  *)
(* is fine enough (2^-MaxHalvings of a millidegree) for every damped value *)
(* within the budget of MaxHalvings halvings to fall on the grid.  The     *)
(* model is therefore the code in real arithmetic on these inputs;         *)
(* rounding of doubles is outside it.                                      *)
(***************************************************************************)
EXTENDS Integers, Sequences, FiniteSets, TLC

VARIABLES
    zones,            \* Zones.zones: the constructed zone list
    call,             \* the last call of a pure function: arguments, locals, result
    currentRotation,  \* App.currentRotation
    targetRotation,   \* App.targetRotation
    smoothing,        \* the smoothing rate the damping run uses (units of ln 2 per time unit)
    delta,            \* the frame time the damping run uses
    frames,           \* number of damping steps taken
    startRotation,    \* currentRotation before the first damping step
    elapsed,          \* sum of the frame times of the damping steps taken
    direction,        \* Controls.direction
    dragging,         \* Controls.dragging
    previousPointerX, \* Controls.previousPointerX
    onRotate,         \* Controls.callbacks.onRotate: which function it is
    listeners,        \* the window's event listeners: <<type, handler>> pairs
    attaches,         \* number of calls of Controls.attach so far
    pc,               \* where App is: constructed, loading, running, failed
    currentZone,      \* App.currentZone, as an index in zones (0 is null)
    notifications,    \* the collaborators' notifications so far, in order
    numberKind,       \* which of the numeric fields hold a non-finite value
    observed          \* what an observer of the window has recorded of the input

\* The fields of Controls and the window's listener list.
controlsVars == <<direction, dragging, previousPointerX, onRotate, listeners,
                  attaches>>

\* The fields of App that the resolver and the damper alone do not use.
appVars == <<pc, currentZone, notifications, numberKind>>

vars == <<zones, call, currentRotation, targetRotation, smoothing, delta,
          frames, startRotation, elapsed, controlsVars, appVars, observed>>

----------------------------------------------------------------------------
(* Bounds of the model *)

MaxZones == 2        \* longest generic zone list
MaxTurns == 1        \* rotations range over -MaxTurns .. MaxTurns full turns around a probe
MaxHalvings == 4     \* total smoothing * delta (in units of ln 2) one damping run may use
MaxSmoothing == 2    \* largest smoothing rate
MaxDelta == 2        \* largest frame time
MaxFrames == 3       \* longest damping run

----------------------------------------------------------------------------
(* Arithmetic *)

RECURSIVE Pow2(_)
Pow2(n) == IF n <= 0 THEN 1 ELSE 2 * Pow2(n - 1)

\* JavaScript's % on numbers: the remainder has the sign of the dividend.
JsRem(a, m) == IF a >= 0 THEN a % m ELSE -((-a) % m)

UnitsPerDeg == 1000 * Pow2(MaxHalvings)

PI == 180 * UnitsPerDeg

TWO_PI == PI * 2

\* A millidegree value in ticks (model input helper).
MilliDeg(m) == m * Pow2(MaxHalvings)

Deg(d) == d * UnitsPerDeg

----------------------------------------------------------------------------
(* Content records: src/src/locations *)

about == [id |-> "about", startAngleDeg |-> 315, endAngleDeg |-> 45]

projects == [id |-> "projects", startAngleDeg |-> 45, endAngleDeg |-> 150]

labs == [id |-> "labs", startAngleDeg |-> 150, endAngleDeg |-> 255]

contact == [id |-> "contact", startAngleDeg |-> 255, endAngleDeg |-> 315]

locations == <<about, projects, labs, contact>>

----------------------------------------------------------------------------
(* class Zones *)

\* constructor(zones): every location gets startRad and endRad.
ZonesConstructor(locs) ==
    [i \in 1..Len(locs) |->
        [id |-> locs[i].id,
         startAngleDeg |-> locs[i].startAngleDeg,
         endAngleDeg |-> locs[i].endAngleDeg,
         startRad |-> (locs[i].startAngleDeg * PI) \div 180,
         endRad |-> (locs[i].endAngleDeg * PI) \div 180]]

\* Mutant: the remainder alone, which keeps the sign of a negative rotation.
normalizedTruncating(rotationY) == JsRem(rotationY, TWO_PI)

\* const normalized = ((rotationY % TWO_PI) + TWO_PI) % TWO_PI;
normalized(rotationY) == JsRem(JsRem(rotationY, TWO_PI) + TWO_PI, TWO_PI)

\* Mutant: the upper bound taken inclusive.
isWithinZoneInclusiveEnd(angle, zone) ==
    IF zone.startRad <= zone.endRad
    THEN angle >= zone.startRad /\ angle <= zone.endRad
    ELSE angle >= zone.startRad \/ angle <= zone.endRad

isWithinZone(angle, zone) ==
    IF zone.startRad <= zone.endRad
    THEN angle >= zone.startRad /\ angle < zone.endRad
    ELSE angle >= zone.startRad \/ angle < zone.endRad

\* this.zones.find((zone) => this.isWithinZone(angle, zone)), from index i on:
\* the index of the first zone that passes, 0 (undefined) when none does.
RECURSIVE find(_, _)
find(angle, i) ==
    IF i > Len(zones) THEN 0
    ELSE IF isWithinZone(angle, zones[i]) THEN i
    ELSE find(angle, i + 1)

\* The same scan backwards: the last zone that passes (used by a mutant).
RECURSIVE findLast(_, _)
findLast(angle, i) ==
    IF i < 1 THEN 0
    ELSE IF isWithinZone(angle, zones[i]) THEN i
    ELSE findLast(angle, i - 1)

\* Mutant: the last matching zone instead of the first.
getActiveZoneLastMatch(rotationY) ==
    IF Len(zones) = 0 THEN 0
    ELSE LET found == findLast(normalized(rotationY), Len(zones))
         IN IF found # 0 THEN found ELSE 1

\* Mutant: no fallback to this.zones[0].
getActiveZoneNoFallback(rotationY) ==
    IF Len(zones) = 0 THEN 0
    ELSE find(normalized(rotationY), 1)

\* getActiveZone(rotationY): the zone is returned as its index in this.zones,
\* and null as 0.
getActiveZone(rotationY) ==
    IF Len(zones) = 0 THEN 0
    ELSE LET found == find(normalized(rotationY), 1)
         IN IF found # 0 THEN found ELSE 1

----------------------------------------------------------------------------
(* utils/physics.js *)

\* Mutant: the branch "if (result > Math.PI) result -= TWO_PI" left out.
normalizeAngleNoUpper(angle) ==
    LET result == JsRem(angle, TWO_PI)
    IN IF result < -PI THEN result + TWO_PI ELSE result

\* Mutant: the branch "if (result < -Math.PI) result += TWO_PI" left out.
normalizeAngleNoLower(angle) ==
    LET result == JsRem(angle, TWO_PI)
    IN IF result > PI THEN result - TWO_PI ELSE result

normalizeAngle(angle) ==
    LET result0 == JsRem(angle, TWO_PI)
        result1 == IF result0 < -PI THEN result0 + TWO_PI ELSE result0
        result2 == IF result1 > PI THEN result1 - TWO_PI ELSE result1
    IN result2

\* Mutant: a decay that is not exponential, 1 / (1 + x) in place of exp(-x).
stepRational(difference, x) ==
    IF x >= 0 THEN (difference * x) \div (x + 1) ELSE difference * x

\* difference * (1 - Math.exp(-smoothing * delta)), with smoothing * delta = x
\* units of ln 2: Math.exp(-x ln 2) is 1 / 2^x, and 2^-x for negative x.
step(difference, x) ==
    IF x >= 0
    THEN (difference * (Pow2(x) - 1)) \div Pow2(x)
    ELSE difference * (1 - Pow2(-x))

\* Mutant: the linear blend current + difference * smoothing * dt.
dampAngleLinear(current, target, smoothingRate, dt) ==
    current + normalizeAngle(target - current) * smoothingRate * dt

\* Mutant: the difference target - current used as it is, not normalized.
dampAngleRawDifference(current, target, smoothingRate, dt) ==
    current + step(target - current, smoothingRate * dt)

\* Mutant: the factor Math.exp(-smoothing * delta) instead of 1 minus it.
dampAngleNoComplement(current, target, smoothingRate, dt) ==
    LET difference == normalizeAngle(target - current)
        x == smoothingRate * dt
    IN IF x >= 0 THEN current + difference \div Pow2(x)
       ELSE current + difference * Pow2(-x)

dampAngle(current, target, smoothingRate, dt) ==
    LET difference == normalizeAngle(target - current)
    IN current + step(difference, smoothingRate * dt)

----------------------------------------------------------------------------
(* JavaScript numbers that are not finite.  A numeric field is an integer     *)
(* (ticks, pixels or time units) together with its kind; when the kind is not *)
(* "finite" the integer is 0 and carries no meaning.                          *)

Finite(n) == [kind |-> "finite", v |-> n]

NaN == [kind |-> "NaN", v |-> 0]

Infinity == [kind |-> "Infinity", v |-> 0]

NegInfinity == [kind |-> "-Infinity", v |-> 0]

\* A property that is missing from an event object.
undefined == [kind |-> "undefined", v |-> 0]

IsFinite(a) == a.kind = "finite"

\* NaN, and undefined, which arithmetic converts to NaN.
IsNaN(a) == a.kind \in {"NaN", "undefined"}

\* Sign of a number that is not NaN: -1, 0 or 1.
Sign(a) ==
    IF a.kind = "Infinity" THEN 1
    ELSE IF a.kind = "-Infinity" THEN -1
    ELSE IF a.v > 0 THEN 1 ELSE IF a.v < 0 THEN -1 ELSE 0

\* a + b
jsAdd(a, b) ==
    IF IsNaN(a) \/ IsNaN(b) THEN NaN
    ELSE IF IsFinite(a) /\ IsFinite(b) THEN Finite(a.v + b.v)
    ELSE IF IsFinite(a) THEN b
    ELSE IF IsFinite(b) THEN a
    ELSE IF a.kind = b.kind THEN a ELSE NaN

\* -a
jsNeg(a) ==
    IF IsNaN(a) THEN NaN
    ELSE IF IsFinite(a) THEN Finite(-a.v)
    ELSE IF a.kind = "Infinity" THEN NegInfinity ELSE Infinity

\* a - b
jsSub(a, b) == jsAdd(a, jsNeg(b))

\* a * b
jsMul(a, b) ==
    IF IsNaN(a) \/ IsNaN(b) THEN NaN
    ELSE IF IsFinite(a) /\ IsFinite(b) THEN Finite(a.v * b.v)
    ELSE IF Sign(a) * Sign(b) = 0 THEN NaN
    ELSE IF Sign(a) * Sign(b) > 0 THEN Infinity ELSE NegInfinity

\* The kinds of the numeric fields when all of them are finite.
AllFinite ==
    [currentRotation |-> "finite", targetRotation |-> "finite",
     previousPointerX |-> "finite"]

\* The numeric fields as JavaScript numbers.
CurrentRotation == [kind |-> numberKind.currentRotation, v |-> currentRotation]

TargetRotation == [kind |-> numberKind.targetRotation, v |-> targetRotation]

PreviousPointerX == [kind |-> numberKind.previousPointerX, v |-> previousPointerX]

----------------------------------------------------------------------------
(* Construction *)

\* The observer's record before any input: no key is down, the direction
\* before the last key event was the constructor's, no drag has begun (where
\* it began, where the pointer was last seen, how many moves followed, capped
\* at two, and the sum of what they passed to onRotate), and no frame has run
\* (the target it left, the drag distance turned into rotation since, the keys
\* that went down since, whether one of them went up again since and whether
\* one had before that frame, the direction that frame found and what its
\* tick added to the target).
NothingObserved ==
    [held |-> {}, directionWas |-> 0,
     dragFrom |-> 0, lastX |-> 0, moves |-> 0, rotatedSum |-> 0,
     targetAtFrame |-> 0, draggedSince |-> 0, downSince |-> {},
     tapped |-> FALSE, tappedBefore |-> FALSE, sampled |-> 0, tick |-> 0]

\* new Controls(): no direction, not dragging, a callback that does nothing;
\* nothing is registered on the window yet.
ControlsConstructor ==
    /\ direction = 0
    /\ dragging = FALSE
    /\ previousPointerX = 0
    /\ onRotate = "noop"
    /\ listeners = {}
    /\ attaches = 0

\* new App(): the fields the constructor sets besides the rotations and zones.
AppConstructor ==
    /\ pc = "constructed"
    /\ currentZone = 0
    /\ notifications = <<>>
    /\ numberKind = AllFinite

----------------------------------------------------------------------------
(* class Controls.  Time is counted in units of (ln 2) / 8 seconds, the time  *)
(* in which App's smoothing rate of 8 per second halves the distance to the   *)
(* target, so that a frame time is an integer and the damping is exact.       *)

\* const ROTATION_SPEED = 1.4 radians per second: 6.950 degrees per time unit.
ROTATION_SPEED == MilliDeg(6950)

\* const DRAG_SENSITIVITY = 0.005 radians per pixel: 0.286 degrees.
DRAG_SENSITIVITY == MilliDeg(286)

LeftCodes == {"ArrowLeft", "KeyA"}

RightCodes == {"ArrowRight", "KeyD"}

\* window.addEventListener(type, handler): the window keeps one registration
\* per type and function, and the handlers are fields of the instance, the
\* same function at every call.
addEventListener(registered, type, handler) == registered \cup {<<type, handler>>}

removeEventListener(registered, type, handler) == registered \ {<<type, handler>>}

\* Mutant: detach that leaves the pointercancel registration behind.
detachKeepingCancel(registered) ==
    LET l1 == removeEventListener(registered, "keydown", "handleKeyDown")
        l2 == removeEventListener(l1, "keyup", "handleKeyUp")
        l3 == removeEventListener(l2, "pointerdown", "handlePointerDown")
        l4 == removeEventListener(l3, "pointermove", "handlePointerMove")
        l5 == removeEventListener(l4, "pointerup", "handlePointerUp")
    IN l5

\* attach(callbacks): the six registrations.
attach(registered) ==
    LET l1 == addEventListener(registered, "keydown", "handleKeyDown")
        l2 == addEventListener(l1, "keyup", "handleKeyUp")
        l3 == addEventListener(l2, "pointerdown", "handlePointerDown")
        l4 == addEventListener(l3, "pointermove", "handlePointerMove")
        l5 == addEventListener(l4, "pointerup", "handlePointerUp")
        l6 == addEventListener(l5, "pointercancel", "handlePointerUp")
    IN l6

detach(registered) ==
    LET l1 == removeEventListener(registered, "keydown", "handleKeyDown")
        l2 == removeEventListener(l1, "keyup", "handleKeyUp")
        l3 == removeEventListener(l2, "pointerdown", "handlePointerDown")
        l4 == removeEventListener(l3, "pointermove", "handlePointerMove")
        l5 == removeEventListener(l4, "pointerup", "handlePointerUp")
        l6 == removeEventListener(l5, "pointercancel", "handlePointerUp")
    IN l6

\* handleKeyDown(event): the direction after it.
handleKeyDown(code, dir) ==
    LET d1 == IF code \in LeftCodes THEN -1 ELSE dir
        d2 == IF code \in RightCodes THEN 1 ELSE d1
    IN d2

\* Mutant: key-up that clears the direction whichever bound key is released.
handleKeyUpAnyKey(code, dir) ==
    IF code \in LeftCodes \cup RightCodes THEN 0 ELSE dir

\* handleKeyUp(event): the direction after it.
handleKeyUp(code, dir) ==
    LET d1 == IF code \in LeftCodes /\ dir = -1 THEN 0 ELSE dir
        d2 == IF code \in RightCodes /\ d1 = 1 THEN 0 ELSE d1
    IN d2

\* Mutant: pointer-move that measures from where it measured before.
handlePointerMoveAnchored(clientX, isDragging, previousX) ==
    IF ~isDragging
    THEN [previousPointerX |-> previousX, rotated |-> <<>>]
    ELSE [previousPointerX |-> previousX,
          rotated |-> <<jsMul(jsSub(clientX, previousX), Finite(DRAG_SENSITIVITY))>>]

\* Mutant: pointer-move that does not look at this.dragging.
handlePointerMoveAlways(clientX, isDragging, previousX) ==
    [previousPointerX |-> clientX,
     rotated |-> <<jsMul(jsSub(clientX, previousX), Finite(DRAG_SENSITIVITY))>>]

\* handlePointerMove(event): previousPointerX after it and the arguments of its
\* calls of callbacks.onRotate, in order.
handlePointerMove(clientX, isDragging, previousX) ==
    IF ~isDragging
    THEN [previousPointerX |-> previousX, rotated |-> <<>>]
    ELSE LET deltaX == jsSub(clientX, previousX)
         IN [previousPointerX |-> clientX,
             rotated |-> <<jsMul(deltaX, Finite(DRAG_SENSITIVITY))>>]

\* Mutant: update that calls back also when the direction is 0.
updateAlways(dir, dt) == <<jsMul(Finite(dir * ROTATION_SPEED), dt)>>

\* update(delta): the arguments of its calls of callbacks.onRotate, in order.
update(dir, dt) ==
    IF dir = 0 THEN <<>>
    ELSE <<jsMul(Finite(dir * ROTATION_SPEED), dt)>>

\* callbacks.onRotate called with each of the arguments in turn: the target
\* rotation after it.  The constructor's callback does nothing; App's is
\* (delta) => { this.targetRotation += delta; }.
RECURSIVE rotate(_, _, _)
rotate(callback, target, rotated) ==
    IF rotated = <<>> THEN target
    ELSE rotate(callback,
                IF callback = "app" THEN jsAdd(target, Head(rotated)) ELSE target,
                Tail(rotated))

----------------------------------------------------------------------------
(* Inputs of the zone resolver *)

\* Degrees the generic zone lists take their start and end from.
ZoneDegs == {0, 120, 240}

\* Every list of at most MaxZones ranges (overlapping, wrapped, empty, with gaps).
LocationLists ==
    UNION {{[i \in 1..n |-> [id |-> ToString(i),
                             startAngleDeg |-> f[i][1],
                             endAngleDeg |-> f[i][2]]]
              : f \in [1..n -> ZoneDegs \X ZoneDegs]}
           : n \in 0..MaxZones}

\* Angles probed, in millidegrees: every range boundary of the generic lists and
\* of the site's locations, and points strictly inside each range.
ProbeMilliDegs ==
    {0, 44999, 45000, 60000, 120000, 150000, 180000, 240000, 255000, 300000,
     315000, 350000}

\* A probe, one tick either side of it, and the same after whole turns.
Rotations ==
    {MilliDeg(m) + e + k * TWO_PI :
        m \in ProbeMilliDegs, e \in {-1, 0, 1}, k \in -MaxTurns..MaxTurns}

----------------------------------------------------------------------------
(* The zone resolver as a state machine: a zone set is constructed, then      *)
(* getActiveZone or isWithinZone is called on it with any rotation.  Both are *)
(* pure, so one call per behaviour covers every call.                         *)

\* The probes that are normalized angles: isWithinZone's angle parameter.
Angles == {a \in Rotations : 0 <= a /\ a < TWO_PI}

NoCall == [fn |-> "none"]

Init ==
    /\ zones \in {ZonesConstructor(l) : l \in LocationLists \cup {locations}}
    /\ call = NoCall
    /\ observed = NothingObserved
    /\ currentRotation = 0
    /\ targetRotation = 0
    /\ smoothing = 0
    /\ delta = 0
    /\ frames = 0
    /\ startRotation = 0
    /\ elapsed = 0
    /\ ControlsConstructor
    /\ AppConstructor

GetActiveZone ==
    \E rotationY \in Rotations :
        /\ call = NoCall
        /\ call' = [fn |-> "getActiveZone",
                    rotationY |-> rotationY,
                    normalized |-> normalized(rotationY),
                    result |-> getActiveZone(rotationY)]
        /\ UNCHANGED <<zones, currentRotation, targetRotation, smoothing, observed, delta,
                       frames, startRotation, elapsed, controlsVars, appVars>>

IsWithinZone ==
    \E angle \in Angles, i \in 1..Len(zones) :
        /\ call = NoCall
        /\ call' = [fn |-> "isWithinZone",
                    angle |-> angle,
                    zone |-> zones[i],
                    result |-> isWithinZone(angle, zones[i])]
        /\ UNCHANGED <<zones, currentRotation, targetRotation, smoothing, observed, delta,
                       frames, startRotation, elapsed, controlsVars, appVars>>

Next == GetActiveZone \/ IsWithinZone

Spec == Init /\ [][Next]_vars

----------------------------------------------------------------------------
(* The rotation damper as a state machine: from any current and target, with  *)
(* a fixed smoothing rate and a fixed frame time, the assignment              *)
(*     this.currentRotation = dampAngle(this.currentRotation,                 *)
(*                                      this.targetRotation, smoothing, delta) *)
(* is repeated.                                                               *)

\* Current and target rotations: either side of the 0/360 boundary, a quarter,
\* a half and three quarters of a turn, and the same after whole turns.
DampDegs == {0, 10, 90, 180, 270, 350}

DampAngles == {Deg(d) + k * TWO_PI : d \in DampDegs, k \in -MaxTurns..MaxTurns}

InitDamp ==
    /\ zones = ZonesConstructor(locations)
    /\ call = NoCall
    /\ observed = NothingObserved
    /\ currentRotation \in DampAngles
    /\ targetRotation \in DampAngles
    /\ smoothing \in -1..MaxSmoothing
    /\ delta \in 0..MaxDelta
    /\ frames = 0
    /\ startRotation = currentRotation
    /\ elapsed = 0
    /\ ControlsConstructor
    /\ AppConstructor

DampFrame ==
    /\ frames < MaxFrames
    /\ smoothing * delta > 0 => (frames + 1) * smoothing * delta <= MaxHalvings
    /\ call' = [fn |-> "dampAngle",
                current |-> currentRotation,
                target |-> targetRotation,
                smoothing |-> smoothing,
                delta |-> delta,
                difference |-> normalizeAngle(targetRotation - currentRotation),
                result |-> dampAngle(currentRotation, targetRotation,
                                     smoothing, delta)]
    /\ currentRotation' = dampAngle(currentRotation, targetRotation,
                                    smoothing, delta)
    /\ frames' = frames + 1
    /\ elapsed' = elapsed + delta
    /\ UNCHANGED <<zones, targetRotation, smoothing, observed, delta, startRotation,
                   controlsVars, appVars>>

NextDamp == DampFrame

SpecDamp == InitDamp /\ [][NextDamp]_vars

\* Every damped value falls on the grid: no division above leaves a remainder.
GridExact ==
    call.fn = "dampAngle" /\ call.smoothing * call.delta > 0 =>
        (call.difference * (Pow2(call.smoothing * call.delta) - 1))
            % Pow2(call.smoothing * call.delta) = 0

----------------------------------------------------------------------------
(* The damper run with a frame time chosen anew at every step: the same       *)
(* assignment as above, the smoothing rate positive and fixed, the target     *)
(* fixed, delta any frame time.                                               *)

InitChunks ==
    /\ zones = ZonesConstructor(locations)
    /\ call = NoCall
    /\ observed = NothingObserved
    /\ currentRotation \in DampAngles
    /\ targetRotation \in DampAngles
    /\ smoothing \in 1..MaxSmoothing
    /\ delta = 0
    /\ frames = 0
    /\ startRotation = currentRotation
    /\ elapsed = 0
    /\ ControlsConstructor
    /\ AppConstructor

ChunkFrame ==
    \E dt \in 0..MaxDelta :
        /\ frames < MaxFrames
        /\ smoothing * (elapsed + dt) <= MaxHalvings
        /\ call' = [fn |-> "dampAngle",
                    current |-> currentRotation,
                    target |-> targetRotation,
                    smoothing |-> smoothing,
                    delta |-> dt,
                    difference |-> normalizeAngle(targetRotation - currentRotation),
                    result |-> dampAngle(currentRotation, targetRotation,
                                         smoothing, dt)]
        /\ currentRotation' = dampAngle(currentRotation, targetRotation,
                                        smoothing, dt)
        /\ delta' = dt
        /\ frames' = frames + 1
        /\ elapsed' = elapsed + dt
        /\ UNCHANGED <<zones, targetRotation, smoothing, observed, startRotation,
                       controlsVars, appVars>>

NextChunks == ChunkFrame

SpecChunks == InitChunks /\ [][NextChunks]_vars

----------------------------------------------------------------------------
(* physics.js and Zones on numbers that may not be finite *)

\* normalizeAngle(angle): NaN % TWO_PI and Infinity % TWO_PI are NaN, both
\* comparisons are then false and NaN is returned.
normalizeAngleJs(angle) ==
    IF IsFinite(angle) THEN Finite(normalizeAngle(angle.v)) ELSE NaN

\* dampAngle(current, target, smoothing, delta) for a positive smoothing:
\* Math.exp(-smoothing * delta) is 0 for delta = Infinity, Infinity for
\* delta = -Infinity and NaN for delta = NaN.
dampAngleJs(current, target, smoothingRate, dt) ==
    LET difference == normalizeAngleJs(jsSub(target, current))
        moved ==
            IF IsNaN(difference) \/ IsNaN(dt) THEN NaN
            ELSE IF IsFinite(dt) THEN Finite(step(difference.v, smoothingRate * dt.v))
            ELSE IF dt.kind = "Infinity" THEN difference
            ELSE jsMul(difference, NegInfinity)
    IN jsAdd(current, moved)

\* getActiveZone(rotationY): for a rotation that is not finite, normalized is
\* NaN, no zone passes isWithinZone and the result is this.zones[0].
getActiveZoneJs(rotationY) ==
    IF IsFinite(rotationY) THEN getActiveZone(rotationY.v)
    ELSE IF Len(zones) = 0 THEN 0 ELSE 1

----------------------------------------------------------------------------
(* class App with its Controls: the state machine of the running page.  The   *)
(* steps are App.init (in two parts, either side of its second await), the    *)
(* frames of App.loop, the window's keyboard and pointer events, and calls of *)
(* Controls.attach and Controls.detach.                                       *)

MaxAttaches == 2     \* calls of Controls.attach in one run
MaxAppFrames == 2    \* frames of App.loop, and calls of Controls.update, in one run

\* dampAngle's smoothing argument in App.loop, 8 per second: 1 per time unit.
SMOOTHING == 1

\* A value the location service resolves to: null, or a list.
nullLocations == [isNull |-> TRUE, list |-> <<>>]
ServiceList(list) == [isNull |-> FALSE, list |-> list]

\* What the location service may resolve to: the site's list, an empty list,
\* or null.
ServiceResults == {ServiceList(locations), ServiceList(<<>>), nullLocations}

\* event.code of the keys pressed: the four bound keys and one that is not.
KeyCodes == {"ArrowLeft", "KeyA", "ArrowRight", "KeyD", "Space"}

\* event.clientX of the pointer events, in pixels.
PointerXs == {0, 400}

\* clock.getDelta() of a frame, in time units: none, or one halving time.
FrameDeltas == {0, 1}

\* The target rotations the inputs are allowed to reach: half a turn either way.
TargetLimit == PI

\* zone?.id
ZoneId(i) == IF i = 0 THEN "undefined" ELSE zones[i].id

\* Mutant: the stored zone kept whatever the frame resolved.
zoneChangedNever(activeZone, storedZone) == FALSE

\* Mutant: the zone taken as changed in every frame.
zoneChangedAlways(activeZone, storedZone) == TRUE

\* activeZone?.id !== this.currentZone?.id
zoneChanged(activeZone, storedZone) == ZoneId(activeZone) # ZoneId(storedZone)

\* Assignment of the three numeric fields.
Store(current, target, previousX) ==
    /\ currentRotation' = current.v
    /\ targetRotation' = target.v
    /\ previousPointerX' = previousX.v
    /\ numberKind' = [currentRotation |-> current.kind,
                      targetRotation |-> target.kind,
                      previousPointerX |-> previousX.kind]

Registered(type, handler) == <<type, handler>> \in listeners

InitApp ==
    /\ zones = <<>>
    /\ call = NoCall
    /\ observed = NothingObserved
    /\ currentRotation = 0
    /\ targetRotation = 0
    /\ smoothing = SMOOTHING
    /\ delta = 0
    /\ frames = 0
    /\ startRotation = 0
    /\ elapsed = 0
    /\ ControlsConstructor
    /\ AppConstructor

\* Mutant: the validation letting an empty list through.
AppInitLoadNullOnly ==
    \E loaded \in ServiceResults :
        /\ pc = "constructed"
        /\ call' = [fn |-> "init", locations |-> loaded]
        /\ IF loaded.isNull
           THEN /\ pc' = "failed"
                /\ UNCHANGED <<zones, onRotate, listeners, attaches>>
           ELSE /\ pc' = "loading"
                /\ zones' = ZonesConstructor(loaded.list)
                /\ onRotate' = "app"
                /\ listeners' = attach(listeners)
                /\ attaches' = attaches + 1
        /\ UNCHANGED <<currentRotation, targetRotation, smoothing, observed, delta, frames,
                       startRotation, elapsed, direction, dragging,
                       previousPointerX, currentZone, notifications, numberKind>>

\* init() up to "await loadInitialAssets()": the locations are fetched and
\* validated, the zones constructed and the controls attached.  A failed
\* validation throws into the catch block, which reports the error and
\* rethrows: pc "failed".
AppInitLoad ==
    \E loaded \in ServiceResults :
        /\ pc = "constructed"
        /\ call' = [fn |-> "init", locations |-> loaded]
        /\ IF loaded.isNull \/ Len(loaded.list) = 0
           THEN /\ pc' = "failed"
                /\ UNCHANGED <<zones, onRotate, listeners, attaches>>
           ELSE /\ pc' = "loading"
                /\ zones' = ZonesConstructor(loaded.list)
                /\ onRotate' = "app"
                /\ listeners' = attach(listeners)
                /\ attaches' = attaches + 1
        /\ UNCHANGED <<currentRotation, targetRotation, smoothing, observed, delta, frames,
                       startRotation, elapsed, direction, dragging,
                       previousPointerX, currentZone, notifications, numberKind>>

\* Mutant: the rotation damped toward the target of the frame before, and the
\* input tick applied after it.
loopDampFirst(dt, storedZone, notified) ==
    LET rotated == update(direction, dt)
        current == dampAngleJs(CurrentRotation, TargetRotation, SMOOTHING, dt)
        target == rotate(onRotate, TargetRotation, rotated)
        activeZone == getActiveZoneJs(current)
        changed == zoneChanged(activeZone, storedZone)
    IN /\ Store(current, target, PreviousPointerX)
       /\ currentZone' = IF changed THEN activeZone ELSE storedZone
       /\ notifications' =
              IF changed
              THEN Append(notified, [by |-> "loop", frame |-> frames + 1,
                                     zone |-> ZoneId(activeZone)])
              ELSE notified
       /\ frames' = frames + 1
       /\ elapsed' = elapsed + dt.v
       /\ call' = [fn |-> "loop",
                   delta |-> dt,
                   rotated |-> rotated,
                   activeZone |-> activeZone,
                   notified |-> Len(notifications') - Len(notified)]

\* loop(): one frame with clock.getDelta() = dt, entered with the given stored
\* zone and notifications.
loop(dt, storedZone, notified) ==
    LET rotated == update(direction, dt)
        target == rotate(onRotate, TargetRotation, rotated)
        current == dampAngleJs(CurrentRotation, target, SMOOTHING, dt)
        activeZone == getActiveZoneJs(current)
        changed == zoneChanged(activeZone, storedZone)
    IN /\ Store(current, target, PreviousPointerX)
       /\ currentZone' = IF changed THEN activeZone ELSE storedZone
       /\ notifications' =
              IF changed
              THEN Append(notified, [by |-> "loop", frame |-> frames + 1,
                                     zone |-> ZoneId(activeZone)])
              ELSE notified
       /\ frames' = frames + 1
       /\ elapsed' = elapsed + dt.v
       /\ call' = [fn |-> "loop",
                   delta |-> dt,
                   rotated |-> rotated,
                   activeZone |-> activeZone,
                   notified |-> Len(notifications') - Len(notified)]

\* A frame time within the bounds of the model.
FrameAllowed(dt) ==
    /\ frames < MaxAppFrames
    /\ IsFinite(dt) => elapsed + dt.v <= MaxHalvings
    /\ LET target == rotate(onRotate, TargetRotation, update(direction, dt))
       IN IsFinite(target) => -TargetLimit <= target.v /\ target.v <= TargetLimit

\* init() from "await loadInitialAssets()" on: the initial zone is set and
\* announced, and loop() is called for the first time.
AppInitStart ==
    \E dt \in FrameDeltas :
        /\ pc = "loading"
        /\ FrameAllowed(Finite(dt))
        /\ LET initialZone == getActiveZoneJs(CurrentRotation)
           IN IF initialZone # 0
              THEN loop(Finite(dt), initialZone,
                        Append(notifications,
                               [by |-> "init", frame |-> 0,
                                zone |-> ZoneId(initialZone)]))
              ELSE loop(Finite(dt), currentZone, notifications)
        /\ pc' = "running"
        /\ UNCHANGED <<zones, smoothing, observed, delta, startRotation, direction,
                       dragging, onRotate, listeners, attaches>>

\* A later frame: requestAnimationFrame calls loop().
FrameWith(dt) ==
    /\ pc = "running"
    /\ FrameAllowed(dt)
    /\ loop(dt, currentZone, notifications)
    /\ UNCHANGED <<zones, smoothing, delta, startRotation, direction, dragging,
                   onRotate, listeners, attaches, pc>>

Frame == \E dt \in FrameDeltas : FrameWith(Finite(dt)) /\ UNCHANGED observed

\* Mutant: a key-down that turns the target at once, by one time unit's worth.
KeyDownTurning(code) ==
    LET handled == Registered("keydown", "handleKeyDown")
    IN /\ direction' = IF handled THEN handleKeyDown(code, direction)
                       ELSE direction
       /\ targetRotation' = targetRotation + direction' * ROTATION_SPEED
       /\ call' = [fn |-> "keydown", code |-> code, handled |-> handled,
                   rotated |-> <<>>]
       /\ UNCHANGED <<zones, currentRotation, smoothing, delta, frames,
                      startRotation, elapsed, dragging, previousPointerX,
                      onRotate, listeners, attaches, appVars>>

\* The window dispatches keydown.
KeyDownWith(code) ==
        LET handled == Registered("keydown", "handleKeyDown")
        IN /\ direction' = IF handled THEN handleKeyDown(code, direction)
                           ELSE direction
           /\ call' = [fn |-> "keydown", code |-> code, handled |-> handled,
                       rotated |-> <<>>]
           /\ UNCHANGED <<zones, currentRotation, targetRotation, smoothing,
                          delta, frames, startRotation, elapsed, dragging,
                          previousPointerX, onRotate, listeners, attaches,
                          appVars>>

KeyDown == \E code \in KeyCodes : KeyDownWith(code) /\ UNCHANGED observed

\* Mutant: a key-up handing the direction to a bound key that is still down.
KeyUpFallingBack(code) ==
    LET handled == Registered("keyup", "handleKeyUp")
        others == observed.held \ {code}
        fallback == IF others \cap LeftCodes # {} THEN -1
                    ELSE IF others \cap RightCodes # {} THEN 1
                    ELSE 0
    IN /\ direction' = IF handled /\ handleKeyUp(code, direction) = 0
                       THEN fallback
                       ELSE direction
       /\ call' = [fn |-> "keyup", code |-> code, handled |-> handled,
                   rotated |-> <<>>]
       /\ UNCHANGED <<zones, currentRotation, targetRotation, smoothing,
                      delta, frames, startRotation, elapsed, dragging,
                      previousPointerX, onRotate, listeners, attaches,
                      appVars>>

\* The window dispatches keyup.
KeyUpWith(code) ==
        LET handled == Registered("keyup", "handleKeyUp")
        IN /\ direction' = IF handled THEN handleKeyUp(code, direction)
                           ELSE direction
           /\ call' = [fn |-> "keyup", code |-> code, handled |-> handled,
                       rotated |-> <<>>]
           /\ UNCHANGED <<zones, currentRotation, targetRotation, smoothing,
                          delta, frames, startRotation, elapsed, dragging,
                          previousPointerX, onRotate, listeners, attaches,
                          appVars>>

KeyUp == \E code \in KeyCodes : KeyUpWith(code) /\ UNCHANGED observed

\* The window dispatches pointerdown: handlePointerDown.
PointerDownWith(clientX) ==
    LET handled == Registered("pointerdown", "handlePointerDown")
    IN /\ dragging' = IF handled THEN TRUE ELSE dragging
       /\ Store(CurrentRotation, TargetRotation,
                IF handled THEN clientX ELSE PreviousPointerX)
       /\ call' = [fn |-> "pointerdown", clientX |-> clientX,
                   handled |-> handled, rotated |-> <<>>]
       /\ UNCHANGED <<zones, smoothing, delta, frames, startRotation, elapsed,
                      direction, onRotate, listeners, attaches, pc, currentZone,
                      notifications>>

PointerDown ==
    \E x \in PointerXs : PointerDownWith(Finite(x)) /\ UNCHANGED observed

\* Mutant: the rotate callback writing the displayed rotation as well.
PointerMoveSnapping(clientX) ==
    LET handled == Registered("pointermove", "handlePointerMove")
        after == IF handled
                 THEN handlePointerMove(clientX, dragging, PreviousPointerX)
                 ELSE [previousPointerX |-> PreviousPointerX, rotated |-> <<>>]
        target == rotate(onRotate, TargetRotation, after.rotated)
    IN /\ IsFinite(target) => -TargetLimit <= target.v /\ target.v <= TargetLimit
       /\ Store(target, target, after.previousPointerX)
       /\ call' = [fn |-> "pointermove", clientX |-> clientX,
                   handled |-> handled, rotated |-> after.rotated]
       /\ UNCHANGED <<zones, smoothing, delta, frames, startRotation, elapsed,
                      direction, dragging, onRotate, listeners, attaches, pc,
                      currentZone, notifications>>

\* The window dispatches pointermove.
PointerMoveWith(clientX) ==
    LET handled == Registered("pointermove", "handlePointerMove")
        after == IF handled
                 THEN handlePointerMove(clientX, dragging, PreviousPointerX)
                 ELSE [previousPointerX |-> PreviousPointerX, rotated |-> <<>>]
        target == rotate(onRotate, TargetRotation, after.rotated)
    IN /\ IsFinite(target) => -TargetLimit <= target.v /\ target.v <= TargetLimit
       /\ Store(CurrentRotation, target, after.previousPointerX)
       /\ call' = [fn |-> "pointermove", clientX |-> clientX,
                   handled |-> handled, rotated |-> after.rotated]
       /\ UNCHANGED <<zones, smoothing, delta, frames, startRotation, elapsed,
                      direction, dragging, onRotate, listeners, attaches, pc,
                      currentZone, notifications>>

PointerMove ==
    \E x \in PointerXs : PointerMoveWith(Finite(x)) /\ UNCHANGED observed

\* The window dispatches pointerup or pointercancel: handlePointerUp.
PointerEnd(type) ==
    LET handled == Registered(type, "handlePointerUp")
    IN /\ dragging' = IF handled THEN FALSE ELSE dragging
       /\ call' = [fn |-> type, handled |-> handled, rotated |-> <<>>]
       /\ UNCHANGED <<zones, currentRotation, targetRotation, smoothing, delta,
                      frames, startRotation, elapsed, direction,
                      previousPointerX, onRotate, listeners, attaches, appVars>>

PointerUp == PointerEnd("pointerup") /\ UNCHANGED observed

PointerCancel == PointerEnd("pointercancel") /\ UNCHANGED observed

\* controls.attach(callbacks), with an onRotate callback that adds to the
\* target rotation as App's does, or with no callback.
Attach ==
    \E callbacks \in {"app", "none"} :
        /\ attaches < MaxAttaches
        /\ onRotate' = IF callbacks = "none" THEN onRotate ELSE callbacks
        /\ listeners' = attach(listeners)
        /\ attaches' = attaches + 1
        /\ call' = [fn |-> "attach", callbacks |-> callbacks, rotated |-> <<>>]
        /\ UNCHANGED <<zones, currentRotation, targetRotation, smoothing, observed, delta,
                       frames, startRotation, elapsed, direction, dragging,
                       previousPointerX, appVars>>

\* Mutant: detach that also puts direction and dragging back to rest.
DetachResetting ==
    /\ listeners' = detach(listeners)
    /\ direction' = 0
    /\ dragging' = FALSE
    /\ call' = [fn |-> "detach", rotated |-> <<>>]
    /\ UNCHANGED <<zones, currentRotation, targetRotation, smoothing, observed,
                   delta, frames, startRotation, elapsed, previousPointerX,
                   onRotate, attaches, appVars>>

\* controls.detach()
Detach ==
    /\ listeners' = detach(listeners)
    /\ call' = [fn |-> "detach", rotated |-> <<>>]
    /\ UNCHANGED <<zones, currentRotation, targetRotation, smoothing, observed, delta,
                   frames, startRotation, elapsed, direction, dragging,
                   previousPointerX, onRotate, attaches, appVars>>

\* controls.update(delta), as the frame loop calls it.
UpdateWith(dt) ==
    LET rotated == update(direction, dt)
        target == rotate(onRotate, TargetRotation, rotated)
    IN /\ frames < MaxAppFrames
       /\ IsFinite(target) => -TargetLimit <= target.v /\ target.v <= TargetLimit
       /\ Store(CurrentRotation, target, PreviousPointerX)
       /\ frames' = frames + 1
       /\ call' = [fn |-> "update", delta |-> dt, rotated |-> rotated]
       /\ UNCHANGED <<zones, smoothing, delta, startRotation, elapsed,
                      direction, dragging, onRotate, listeners, attaches, pc,
                      currentZone, notifications>>

Update == \E dt \in FrameDeltas : UpdateWith(Finite(dt)) /\ UNCHANGED observed

\* The page: App with the Controls it attaches.
NextApp ==
    \/ AppInitLoad
    \/ AppInitStart
    \/ Frame
    \/ KeyDown
    \/ KeyUp
    \/ PointerDown
    \/ PointerMove
    \/ PointerUp
    \/ PointerCancel

SpecApp == InitApp /\ [][NextApp]_vars

\* The page, with the input tick also taken on its own between frames.
NextWriters ==
    \/ NextApp
    \/ Update

SpecWriters == InitApp /\ [][NextWriters]_vars

\* A key goes down, or repeats while down: the observer notes it.
KeyPress ==
    \E code \in KeyCodes :
        /\ KeyDownWith(code)
        /\ observed' = [observed EXCEPT !.held = @ \cup {code},
                                        !.directionWas = direction]

\* A key that is down goes up.
KeyRelease ==
    \E code \in observed.held :
        /\ KeyUpWith(code)
        /\ observed' = [observed EXCEPT !.held = @ \ {code},
                                        !.directionWas = direction]

\* The keyboard: Controls attached by any caller, and keys going down and up
\* as a keyboard lets them.
NextKeys ==
    \/ Attach
    \/ KeyPress
    \/ KeyRelease

SpecKeys == InitApp /\ [][NextKeys]_vars

\* clientX of the pointer events of a drag.
DragXs == {0, 100, 250, 400}

\* The finite numbers of a list of onRotate arguments, added up.
RECURSIVE RotatedSum(_)
RotatedSum(rotated) ==
    IF rotated = <<>> THEN 0 ELSE Head(rotated).v + RotatedSum(Tail(rotated))

\* The pointer goes down at x: the observer starts a new record of the drag
\* when the handler ran.
DragStart ==
    \E x \in DragXs :
        /\ PointerDownWith(Finite(x))
        /\ observed' = IF call'.handled
                       THEN [observed EXCEPT !.dragFrom = x, !.lastX = x,
                                             !.moves = 0, !.rotatedSum = 0]
                       ELSE observed

\* The pointer moves to x: the observer adds up what the handler passed to
\* onRotate.
DragMove ==
    \E x \in DragXs :
        /\ PointerMoveWith(Finite(x))
        /\ observed' = IF call'.handled /\ dragging
                       THEN [observed EXCEPT
                                !.lastX = x,
                                !.moves = IF @ < 2 THEN @ + 1 ELSE @,
                                !.rotatedSum = @ + RotatedSum(call'.rotated)]
                       ELSE observed

\* The pointer: Controls attached by any caller, and drags.
NextDrag ==
    \/ Attach
    \/ DragStart
    \/ DragMove
    \/ PointerUp
    \/ PointerCancel

SpecDrag == InitApp /\ [][NextDrag]_vars

\* Controls on its own, attached, detached and updated by any caller.
NextControls ==
    \/ Attach
    \/ Detach
    \/ Update
    \/ KeyDown
    \/ KeyUp
    \/ PointerDown
    \/ PointerMove
    \/ PointerUp
    \/ PointerCancel

SpecControls == InitApp /\ [][NextControls]_vars

----------------------------------------------------------------------------
(* The page with input noise: frames whose clock delta is not a finite number *)
(* and pointer events whose clientX is missing or not a number.               *)

\* A frame with clock.getDelta() = NaN, Infinity or -Infinity.
NoisyFrame ==
    \E dt \in {NaN, Infinity, NegInfinity} : FrameWith(dt) /\ UNCHANGED observed

\* A pointerdown event without clientX, or with one that is not a number.
MalformedPointerDown ==
    \E x \in {undefined, NaN} : PointerDownWith(x) /\ UNCHANGED observed

\* A pointermove event without clientX, or with one that is not a number.
MalformedPointerMove ==
    \E x \in {undefined, NaN} : PointerMoveWith(x) /\ UNCHANGED observed

NextNoise ==
    \/ NextApp
    \/ NoisyFrame
    \/ MalformedPointerDown
    \/ MalformedPointerMove

SpecNoise == InitApp /\ [][NextNoise]_vars

----------------------------------------------------------------------------
(* The end-to-end run: the page after init(), at rest at rotation 0 in the    *)
(* first zone; one drag of 400 pixels to the right, which adds 400 * 0.005 =  *)
(* 2.0 radians to the target; then frames of 0.016 seconds.  A frame of       *)
(* 0.016 s is not a whole number of halving times, so here                    *)
(* Math.exp(-8 * 0.016) = 0.8799... is taken to three decimals and the moved  *)
(* angle is rounded down to a tick.                                           *)

MaxScenarioFrames == 40   \* frames of the end-to-end run

\* Math.exp(-8 * 0.016), in thousandths.
ExpPerMille == 880

\* The pixels of the drag, and the target it adds up to.
ScenarioPixels == 400

ScenarioTarget == ScenarioPixels * DRAG_SENSITIVITY

\* dampAngle(current, target, 8, 0.016)
dampAngle16ms(current, target) ==
    LET difference == normalizeAngle(target - current)
    IN current + (difference * (1000 - ExpPerMille)) \div 1000

\* The state init() leaves when nothing has been pressed or dragged and the
\* clock's first delta is 0: the zone of rotation 0 stored and announced, one
\* frame run.
InitScenario ==
    /\ zones = ZonesConstructor(locations)
    /\ call = [fn |-> "loop", delta |-> Finite(0), rotated |-> <<>>,
               activeZone |-> 1, notified |-> 0]
    /\ observed = NothingObserved
    /\ currentRotation = 0
    /\ targetRotation = 0
    /\ smoothing = SMOOTHING
    /\ delta = 0
    /\ frames = 1
    /\ startRotation = 0
    /\ elapsed = 0
    /\ direction = 0
    /\ dragging = FALSE
    /\ previousPointerX = 0
    /\ onRotate = "app"
    /\ listeners = attach({})
    /\ attaches = 1
    /\ pc = "running"
    /\ currentZone = 1
    /\ notifications = <<[by |-> "init", frame |-> 0, zone |-> "about"]>>
    /\ numberKind = AllFinite

\* The pointer goes down, once, somewhere.
ScenarioPointerDown ==
    \E x \in {0, 100, 200} :
        /\ ~dragging
        /\ targetRotation = 0
        /\ PointerDownWith(Finite(x))
        /\ UNCHANGED observed

\* The pointer moves to the right, in one move or several, 400 pixels in all.
ScenarioPointerMove ==
    \E dx \in {100, 200, 300, 400} :
        /\ dragging
        /\ targetRotation + dx * DRAG_SENSITIVITY <= ScenarioTarget
        /\ PointerMoveWith(Finite(previousPointerX + dx))
        /\ UNCHANGED observed

\* The pointer is released, before the frames or between them.
ScenarioPointerUp ==
    /\ dragging
    /\ targetRotation = ScenarioTarget
    /\ PointerUp

\* loop() with clock.getDelta() = 0.016, no key held (controls.update returns
\* at once).
ScenarioFrame ==
    LET current == dampAngle16ms(currentRotation, targetRotation)
        activeZone == getActiveZone(current)
        changed == zoneChanged(activeZone, currentZone)
    IN /\ targetRotation = ScenarioTarget
       /\ frames < MaxScenarioFrames
       /\ direction = 0
       /\ currentRotation' = current
       /\ currentZone' = IF changed THEN activeZone ELSE currentZone
       /\ notifications' =
              IF changed
              THEN Append(notifications, [by |-> "loop", frame |-> frames + 1,
                                          zone |-> ZoneId(activeZone)])
              ELSE notifications
       /\ frames' = frames + 1
       /\ call' = [fn |-> "loop", milliseconds |-> 16, rotated |-> <<>>,
                   activeZone |-> activeZone,
                   notified |-> IF changed THEN 1 ELSE 0]
       /\ UNCHANGED <<zones, targetRotation, smoothing, observed, delta, startRotation,
                      elapsed, controlsVars, pc, numberKind>>

NextScenario ==
    \/ ScenarioPointerDown
    \/ ScenarioPointerMove
    \/ ScenarioPointerUp
    \/ ScenarioFrame

SpecScenario == InitScenario /\ [][NextScenario]_vars

----------------------------------------------------------------------------
(* The started page with an observer of what happens between frames *)

\* event.code of the keys the observer watches: one bound to each direction.
SampledCodes == {"ArrowLeft", "KeyD"}

\* A key goes down between frames.
SampledKeyDown ==
    \E code \in SampledCodes :
        /\ KeyDownWith(code)
        /\ observed' = [observed EXCEPT !.downSince = @ \cup {code}]

\* A key goes up between frames: a tap if it went down since the last frame.
SampledKeyUp ==
    \E code \in SampledCodes :
        /\ KeyUpWith(code)
        /\ observed' = [observed EXCEPT
                           !.tapped = @ \/ code \in observed.downSince]

\* The pointer moves between frames: the observer turns the distance from the
\* last position into rotation itself when a drag is on.
SampledPointerMove ==
    \E x \in PointerXs :
        /\ PointerMoveWith(Finite(x))
        /\ observed' = [observed EXCEPT
                           !.draggedSince =
                               IF dragging
                               THEN @ + (x - previousPointerX) * DRAG_SENSITIVITY
                               ELSE @]

\* A frame: the observer notes the direction it found and what was added to
\* the target during it, and starts over.
SampledFrame ==
    \E dt \in FrameDeltas :
        /\ FrameWith(Finite(dt))
        /\ observed' = [observed EXCEPT
                           !.targetAtFrame = targetRotation',
                           !.draggedSince = 0,
                           !.downSince = {},
                           !.tapped = FALSE,
                           !.tappedBefore = observed.tapped,
                           !.sampled = direction,
                           !.tick = targetRotation' - targetRotation]

NextSampling ==
    \/ SampledFrame
    \/ SampledKeyDown
    \/ SampledKeyUp
    \/ PointerDown
    \/ SampledPointerMove
    \/ PointerUp
    \/ PointerCancel

SpecSampling == InitScenario /\ [][NextSampling]_vars

----------------------------------------------------------------------------
(* Notions the properties are stated in, written independently of the code *)

\* The angle in [0, 2 pi) congruent to x modulo a full turn.
Reduced(x) == x % TWO_PI

\* The arc from start (included) to end (excluded), travelled in the positive
\* direction, contains the angle.  For angles and bounds in [0, 2 pi).
OnArc(angle, zone) ==
    Reduced(angle - zone.startRad) < Reduced(zone.endRad - zone.startRad)

\* The zones of this.zones whose range contains the angle.
Matching(angle) == {j \in 1..Len(zones) : OnArc(angle, zones[j])}

\* Shortest-path distance between two angles.
Dist(a, b) ==
    LET r == Reduced(b - a) IN IF r <= PI THEN r ELSE TWO_PI - r

Called(fn) == call.fn = fn

----------------------------------------------------------------------------
(* Zone resolver *)

\* C1: for a non-empty zone list and any rotation, getActiveZone returns the
\* first zone in construction order among those whose range contains the
\* normalized rotation; a later zone that also contains it is never returned.
C1_FirstMatch ==
    Called("getActiveZone") /\ Len(zones) > 0 =>
        LET M == Matching(Reduced(call.rotationY))
        IN M # {} => call.result \in M /\ \A j \in M : call.result <= j

\* Two ranges overlap at the rotation and the earlier one is returned.
C1_Witness ==
    /\ Called("getActiveZone")
    /\ Cardinality(Matching(Reduced(call.rotationY))) >= 2
    /\ call.result \in Matching(Reduced(call.rotationY))
    /\ \E j \in Matching(Reduced(call.rotationY)) : call.result < j

\* C2: getActiveZone returns null iff the zone list is empty; for a non-empty
\* list it returns a zone of the list, and the first zone when no range
\* contains the normalized rotation.
C2_NullIffEmpty ==
    Called("getActiveZone") =>
        /\ call.result = 0 <=> Len(zones) = 0
        /\ Len(zones) > 0 => call.result \in 1..Len(zones)
        /\ Len(zones) > 0 /\ Matching(Reduced(call.rotationY)) = {} =>
               call.result = 1

\* A gap in coverage: two ranges, neither contains the rotation, the first is
\* returned.
C2_Witness ==
    /\ Called("getActiveZone")
    /\ Len(zones) = 2
    /\ zones[1].startRad # zones[1].endRad
    /\ Matching(Reduced(call.rotationY)) = {}
    /\ call.result = 1

\* C3 as stated: isWithinZone is start <= angle < end for start <= end and
\* angle >= start or angle < end for start > end, and in both cases
\* angle == start is inside and angle == end is outside.
C3_Original ==
    Called("isWithinZone") =>
        LET s == call.zone.startRad
            e == call.zone.endRad
            a == call.angle
        IN /\ s <= e => (call.result <=> (s <= a /\ a < e))
           /\ s > e => (call.result <=> (a >= s \/ a < e))
           /\ a = s => call.result
           /\ a = e => ~call.result

\* C3 amended: the same, with angle == start inside unless start == end (the
\* range is then empty and nothing is inside).
C3_HalfOpen ==
    Called("isWithinZone") =>
        LET s == call.zone.startRad
            e == call.zone.endRad
            a == call.angle
        IN /\ s <= e => (call.result <=> (s <= a /\ a < e))
           /\ s > e => (call.result <=> (a >= s \/ a < e))
           /\ a = s /\ s # e => call.result
           /\ a = e => ~call.result
           /\ s = e => ~call.result

\* A wrapped range asked about its end: outside.
C3_Witness ==
    /\ Called("isWithinZone")
    /\ call.zone.startRad > call.zone.endRad
    /\ call.angle = call.zone.endRad
    /\ ~call.result

\* C4 as stated: for every non-wrapped range [s, e) with s < e of the zone
\* set, activeZone(s) is that range and activeZone(e) is not.
C4_Original ==
    Called("getActiveZone") =>
        \A i \in 1..Len(zones) :
            zones[i].startRad < zones[i].endRad =>
                /\ call.rotationY = zones[i].startRad =>
                       zones[call.result].id = zones[i].id
                /\ call.rotationY = zones[i].endRad =>
                       zones[call.result].id # zones[i].id

\* C4 amended: s is inside the range and e is not; activeZone(s) is the range
\* unless an earlier range also contains s (then the first such range);
\* activeZone(e) is the first range containing e, or the first range of the
\* list when none does, so it is the same range at e only by that fallback.
C4_Boundaries ==
    Called("getActiveZone") =>
        \A i \in 1..Len(zones) :
            zones[i].startRad < zones[i].endRad =>
                /\ call.rotationY = zones[i].startRad =>
                       /\ i \in Matching(zones[i].startRad)
                       /\ call.result \in Matching(zones[i].startRad)
                       /\ call.result <= i
                       /\ \A j \in Matching(zones[i].startRad) : call.result <= j
                /\ call.rotationY = zones[i].endRad =>
                       /\ i \notin Matching(zones[i].endRad)
                       /\ Matching(zones[i].endRad) # {} =>
                              /\ call.result \in Matching(zones[i].endRad)
                              /\ \A j \in Matching(zones[i].endRad) :
                                     call.result <= j
                       /\ Matching(zones[i].endRad) = {} => call.result = 1
                       /\ call.result = i =>
                              i = 1 /\ Matching(zones[i].endRad) = {}

\* At the end of a non-wrapped range the next range of the list is returned.
C4_Witness ==
    /\ Called("getActiveZone")
    /\ \E i \in 1..Len(zones) :
           /\ zones[i].startRad < zones[i].endRad
           /\ call.rotationY = zones[i].endRad
           /\ call.result = i + 1

C6_Normalized ==
    Called("getActiveZone") =>
        /\ 0 <= call.normalized /\ call.normalized < TWO_PI
        /\ (call.rotationY - call.normalized) % TWO_PI = 0
        /\ \A k \in -MaxTurns..MaxTurns :
               /\ normalized(call.rotationY + k * TWO_PI) = call.normalized
               /\ getActiveZone(call.rotationY + k * TWO_PI) = call.result

\* A negative rotation that is not a whole number of turns.
C6_Witness ==
    /\ Called("getActiveZone")
    /\ call.rotationY < 0
    /\ call.normalized > 0
    /\ call.result # 0

----------------------------------------------------------------------------
(* Rotation damper *)

\* x is an odd multiple of pi.
OddMultipleOfPi(x) == (x - PI) % TWO_PI = 0

\* C7 as stated: the difference dampAngle applies lies in (-pi, pi], never
\* equal to -pi.
C7_Original ==
    Called("dampAngle") => -PI < call.difference /\ call.difference <= PI

\* C7 amended: the difference lies in the closed interval [-pi, pi] and is
\* congruent to target - current; it is -pi exactly when target - current is a
\* negative odd multiple of pi and +pi exactly when it is a positive one, so a
\* target half a turn away is approached in the direction of target - current.
C7_ClosedInterval ==
    Called("dampAngle") =>
        LET raw == call.target - call.current
        IN /\ -PI <= call.difference /\ call.difference <= PI
           /\ (raw - call.difference) % TWO_PI = 0
           /\ call.difference = -PI <=> (OddMultipleOfPi(raw) /\ raw < 0)
           /\ call.difference = PI <=> (OddMultipleOfPi(raw) /\ raw > 0)

\* A target half a turn below current: the difference applied is -pi.
C7_Witness ==
    /\ Called("dampAngle")
    /\ call.target - call.current = -PI
    /\ call.difference = -PI

\* C8: with rate > 0 and dt > 0, dampAngle from 350 degrees toward 10 degrees
\* returns more than 350 degrees; whenever target - current reduced modulo a
\* turn is in (0, pi) the result is greater than current, and whenever it is in
\* (-pi, 0), that is in (pi, 2 pi), the result is smaller.
C8_ShortWay ==
    Called("dampAngle") /\ call.smoothing > 0 /\ call.delta > 0 =>
        LET r == Reduced(call.target - call.current)
        IN /\ 0 < r /\ r < PI => call.result > call.current
           /\ PI < r => call.result < call.current
           /\ call.current = Deg(350) /\ call.target = Deg(10) =>
                  call.result > Deg(350) /\ call.result <= Deg(370)

\* From 350 degrees toward 10 degrees: upward, across 360.
C8_Witness ==
    /\ Called("dampAngle")
    /\ call.smoothing > 0 /\ call.delta > 0
    /\ call.current = Deg(350) /\ call.target = Deg(10)
    /\ call.result > Deg(350)

\* C9: dampAngle with dt == 0 returns current, for every current, target and
\* smoothing rate.
C9_ZeroDt ==
    Called("dampAngle") /\ call.delta = 0 =>
        call.result = call.current /\ currentRotation = call.current

\* dt == 0 with a target away from current and a non-zero rate.
C9_Witness ==
    /\ Called("dampAngle")
    /\ call.delta = 0
    /\ call.smoothing # 0
    /\ Dist(call.current, call.target) # 0
    /\ call.result = call.current

\* C10 as stated: with fixed dt > 0, rate > 0 and target, the shortest-path
\* distance to target strictly decreases at every step, for any starting
\* current, and is below any epsilon after a bounded number of steps (after k
\* steps it is at most pi exp(-rate dt k)).
C10_Original ==
    Called("dampAngle") /\ call.smoothing > 0 /\ call.delta > 0 =>
        /\ Dist(call.result, call.target) < Dist(call.current, call.target)
        /\ Dist(currentRotation, targetRotation)
               * Pow2(frames * smoothing * delta) <= PI

\* C10 amended: the distance strictly decreases at every step at which it is
\* not zero and stays zero once it is zero; after k steps it is the starting
\* distance times exp(-rate dt k), so at most pi exp(-rate dt k), which is
\* below any epsilon after a number of steps that does not depend on the
\* starting current.
C10_Converges ==
    Called("dampAngle") /\ call.smoothing > 0 /\ call.delta > 0 =>
        LET before == Dist(call.current, call.target)
            after == Dist(call.result, call.target)
            decay == Pow2(frames * smoothing * delta)
        IN /\ before > 0 => after < before
           /\ before = 0 => after = 0
           /\ call.result = currentRotation
           /\ Dist(currentRotation, targetRotation) * decay
                  = Dist(startRotation, targetRotation)
           /\ Dist(currentRotation, targetRotation) * decay <= PI

\* Three steps from half a turn away: an eighth of the starting distance.
C10_Witness ==
    /\ Called("dampAngle")
    /\ smoothing * delta = 1
    /\ frames = 3
    /\ Dist(startRotation, targetRotation) = PI
    /\ Dist(currentRotation, targetRotation) * 8 = PI

----------------------------------------------------------------------------
(* Construction of the zone set *)

\* C14 as stated: constructing Zones from an empty list fails, so
\* getActiveZone is never called on an empty zone set.
C14_Original ==
    Called("getActiveZone") => Len(zones) > 0

----------------------------------------------------------------------------
(* Keyboard and pointer input *)

\* The direction a key stands for: -1 for the left keys, 1 for the right keys,
\* 0 for a key that is not bound.
KeyDirection(code) ==
    IF code \in {"ArrowLeft", "KeyA"} THEN -1
    ELSE IF code \in {"ArrowRight", "KeyD"} THEN 1
    ELSE 0

\* C11: key-up sets the direction to 0 when the released key's direction is
\* the active one and leaves it as it is otherwise: after key-down left,
\* key-down right, key-up left the direction is still +1, and key-up right
\* while the direction is -1 leaves it -1.
C11_KeyUpActiveOnly ==
    [][call'.fn = "keyup" /\ call'.handled =>
           /\ KeyDirection(call'.code) = direction /\ direction # 0 =>
                  direction' = 0
           /\ KeyDirection(call'.code) # direction => direction' = direction
           /\ direction = 1 /\ KeyDirection(call'.code) = -1 => direction' = 1
           /\ direction = -1 /\ KeyDirection(call'.code) = 1 => direction' = -1]_vars

\* A left key released while the direction is +1: still +1.
C11_Witness ==
    /\ call.fn = "keyup"
    /\ call.handled
    /\ KeyDirection(call.code) = -1
    /\ direction = 1

----------------------------------------------------------------------------
(* Frames of the page *)

\* The zone whose range contains the rotation, for the site's zones, of which
\* exactly one does.
Resolved(rotation) == CHOOSE i \in 1..Len(zones) : OnArc(Reduced(rotation), zones[i])

\* The number of notifications that frames of the loop have made.
LoopNotifications(notes) ==
    Cardinality({i \in 1..Len(notes) : notes[i].by = "loop"})

\* The zone stored when a frame starts: App.currentZone, and for the frame that
\* init() runs the initial zone that init() has just stored.
StoredZone == IF pc = "loading" THEN Resolved(currentRotation) ELSE currentZone

\* C12: in every frame of App.loop the collaborators are notified exactly once
\* when the id of the zone resolved from the new current rotation differs from
\* the stored id and not at all otherwise, so never more than once in a frame
\* and never in a frame that resolves to the zone of the frame before.
C12_NotifyOnChange ==
    [][call'.fn = "loop" =>
           LET told == LoopNotifications(notifications')
                           - LoopNotifications(notifications)
               differs == zones[Resolved(currentRotation')].id # zones[StoredZone].id
           IN /\ told = IF differs THEN 1 ELSE 0
              /\ told = call'.notified
              /\ differs => notifications'[Len(notifications')].zone
                                = zones[Resolved(currentRotation')].id
              /\ currentZone' = Resolved(currentRotation')]_vars

\* A frame after the first that moved the rotation into another zone and
\* notified once.
C12_Witness ==
    /\ call.fn = "loop"
    /\ frames = 2
    /\ call.notified = 1
    /\ LoopNotifications(notifications) = 1
    /\ zones[currentZone].id = "projects"

\* C13: with the site's zones and current = target = 0 the active zone is
\* the [315,45) one (about); after a drag has added 2.0 rad to the target and
\* frames of 0.016 s run with smoothing 8, current rises toward 2.0 rad without
\* passing it and is within a degree of it at the end of the run, the active
\* zone becomes the [45,150) one (projects), and the loop notifies exactly once
\* in the whole run, in the frame in which current first reaches 45 degrees.
C13_EndToEnd ==
    [][/\ zones[currentZone'].id =
              IF currentRotation' < Deg(45) THEN "about" ELSE "projects"
       /\ LoopNotifications(notifications') =
              IF currentRotation' >= Deg(45) THEN 1 ELSE 0
       /\ LoopNotifications(notifications') > LoopNotifications(notifications)
              <=> currentRotation < Deg(45) /\ currentRotation' >= Deg(45)
       /\ currentRotation <= currentRotation'
       /\ currentRotation' <= ScenarioTarget
       /\ targetRotation' <= ScenarioTarget
       /\ frames' >= MaxScenarioFrames =>
              ScenarioTarget - currentRotation' <= Deg(1)]_vars

\* The end of the run: near the target, in projects, one notification, made in
\* the fourth frame of 0.016 s (the fifth frame since init).
C13_Witness ==
    /\ frames = MaxScenarioFrames
    /\ targetRotation = ScenarioTarget
    /\ ScenarioTarget - currentRotation <= Deg(1)
    /\ zones[currentZone].id = "projects"
    /\ LoopNotifications(notifications) = 1
    /\ notifications[Len(notifications)].frame = 5

----------------------------------------------------------------------------
(* Input noise *)

\* C15 as stated: a frame whose dt is NaN or infinite is ignored: current
\* rotation, target rotation and the stored zone are the same after it.
C15_Original ==
    [][call'.fn = "loop" /\ ~IsFinite(call'.delta) =>
           /\ CurrentRotation' = CurrentRotation
           /\ TargetRotation' = TargetRotation
           /\ currentZone' = currentZone]_vars

\* C16 as stated: a pointer-down or pointer-move whose clientX is missing or
\* not a number updates nothing: target rotation, dragging and
\* previousPointerX keep their values.
C16_Original ==
    [][call'.fn \in {"pointerdown", "pointermove"} /\ call'.handled
           /\ ~IsFinite(call'.clientX) =>
           /\ TargetRotation' = TargetRotation
           /\ dragging' = dragging
           /\ PreviousPointerX' = PreviousPointerX]_vars

----------------------------------------------------------------------------
(* Listener lifecycle *)

\* The window events Controls listens to.
EventTypes ==
    {"keydown", "keyup", "pointerdown", "pointermove", "pointerup",
     "pointercancel"}

\* C17: attach registers a handler for each of the six event types, however
\* often it is called, and detach removes every one of them; an event that
\* arrives while none is registered (before the first attach, or after a detach
\* and before the next attach) is not handled and changes neither direction,
\* dragging, previousPointerX nor the target rotation, and no event changes
\* the registrations.
C17_AttachedOnly ==
    [][/\ call'.fn = "attach" => {l[1] : l \in listeners'} = EventTypes
       /\ call'.fn = "detach" => listeners' = {}
       /\ call'.fn \in EventTypes =>
              /\ listeners' = listeners
              /\ listeners = {} =>
                     /\ ~call'.handled
                     /\ direction' = direction
                     /\ dragging' = dragging
                     /\ PreviousPointerX' = PreviousPointerX
                     /\ TargetRotation' = TargetRotation]_vars

\* After two calls of attach and a detach, while dragging with a right key
\* held, a pointer-move arrives: it is not handled.
C17_Witness ==
    /\ call.fn = "pointermove"
    /\ ~call.handled
    /\ attaches = 2
    /\ listeners = {}
    /\ dragging
    /\ direction = 1
    /\ onRotate = "app"
    /\ call.clientX # PreviousPointerX

----------------------------------------------------------------------------
(* Frame-rate independence *)

\* C18: dampAngle does not depend on how the elapsed time is cut into frames:
\* for every current, target and rate > 0, applying it for dt1 and then, to
\* the result, for dt2 (dt1, dt2 >= 0, same target) gives what applying it
\* once for dt1 + dt2 gives; so after any number of frames the rotation is
\* what one call with the whole elapsed time gives.
C18_ChunkIndependent ==
    /\ currentRotation = dampAngle(startRotation, targetRotation, smoothing, elapsed)
    /\ Called("dampAngle") =>
           \A dt1 \in 0..elapsed :
               dampAngle(dampAngle(startRotation, targetRotation, smoothing, dt1),
                         targetRotation, smoothing, elapsed - dt1)
                   = currentRotation

\* Two frames of different positive lengths toward a target that is away.
C18_Witness ==
    /\ Called("dampAngle")
    /\ frames = 2
    /\ call.delta > 0
    /\ elapsed > 2 * call.delta
    /\ Dist(startRotation, targetRotation) > 0
    /\ currentRotation # startRotation

----------------------------------------------------------------------------
(* Keyboard rotation per frame *)

\* C19: update(dt) calls onRotate exactly once, with direction * 1.4 * dt,
\* when the direction is -1 or +1, and not at all when it is 0; App's callback
\* adds that amount to the target.  A key-down or key-up event, a repeated
\* key-down of a held key included, calls onRotate not at all and leaves the
\* target as it is, so the keyboard's contribution to the target is that of
\* the update calls alone: the direction at each frame times the frame's dt.
C19_OncePerFrame ==
    [][/\ call'.fn = "update" =>
              /\ direction \in {-1, 1} =>
                     call'.rotated =
                         <<Finite(direction * ROTATION_SPEED * call'.delta.v)>>
              /\ direction = 0 => call'.rotated = <<>>
              /\ TargetRotation' =
                     IF direction # 0 /\ onRotate = "app"
                     THEN Finite(targetRotation
                                     + direction * ROTATION_SPEED * call'.delta.v)
                     ELSE TargetRotation
              /\ direction' = direction
       /\ call'.fn \in {"keydown", "keyup"} =>
              /\ call'.rotated = <<>>
              /\ TargetRotation' = TargetRotation]_vars

\* A second update with the left key held: the target is two frames' worth to
\* the left.
C19_Witness ==
    /\ call.fn = "update"
    /\ direction = -1
    /\ onRotate = "app"
    /\ frames = 2
    /\ call.delta = Finite(1)
    /\ call.rotated = <<Finite(-ROTATION_SPEED)>>
    /\ targetRotation = -2 * ROTATION_SPEED

----------------------------------------------------------------------------
(* Dragging *)

\* C20: a pointer-move calls onRotate with (clientX - previousPointerX) * 0.005
\* and then stores clientX as previousPointerX if and only if dragging is
\* true; while dragging is false (nothing pressed yet, or the pointer released
\* or cancelled since) it calls nothing and changes no field.  Dragging is
\* true from a pointer-down, which stores its clientX, to the next pointer-up
\* or pointer-cancel.
C20_MoveWhileDragging ==
    [][/\ call'.fn = "pointermove" /\ call'.handled =>
              /\ dragging =>
                     /\ call'.rotated =
                            <<Finite((call'.clientX.v - previousPointerX)
                                         * DRAG_SENSITIVITY)>>
                     /\ previousPointerX' = call'.clientX.v
                     /\ onRotate = "app" =>
                            targetRotation' = targetRotation
                                + (call'.clientX.v - previousPointerX)
                                      * DRAG_SENSITIVITY
              /\ ~dragging =>
                     /\ call'.rotated = <<>>
                     /\ previousPointerX' = previousPointerX
                     /\ targetRotation' = targetRotation
              /\ dragging' = dragging
              /\ direction' = direction
       /\ call'.fn = "pointerdown" /\ call'.handled =>
              dragging' /\ previousPointerX' = call'.clientX.v
       /\ call'.fn \in {"pointerup", "pointercancel"} /\ call'.handled =>
              ~dragging']_vars

\* A move of 400 pixels to the right during a drag.
C20_Witness ==
    /\ call.fn = "pointermove"
    /\ call.handled
    /\ dragging
    /\ onRotate = "app"
    /\ call.clientX = Finite(400)
    /\ call.rotated = <<Finite(400 * DRAG_SENSITIVITY)>>
    /\ previousPointerX = 400
    /\ targetRotation = 400 * DRAG_SENSITIVITY

----------------------------------------------------------------------------
(* Order of the steps of a frame *)

\* C21: within one frame App.loop first applies the input tick to the target,
\* then damps current toward that updated target, then resolves the zone from
\* the new current (not from the target, not from the current of the frame
\* before), and only then decides the notification.
C21_StepOrder ==
    [][call'.fn = "loop" =>
           LET tick == IF direction = 0 THEN 0
                       ELSE direction * ROTATION_SPEED * call'.delta.v
           IN /\ targetRotation' = targetRotation + tick
              /\ currentRotation' = dampAngle(currentRotation, targetRotation',
                                              SMOOTHING, call'.delta.v)
              /\ call'.activeZone = Resolved(currentRotation')
              /\ currentZone' = Resolved(currentRotation')
              /\ call'.notified = 1
                     <=> zones[Resolved(currentRotation')].id # zones[StoredZone].id]_vars

\* A frame with a key held after a drag to the left: the tick moved the
\* target, current followed half of the way, and the zone announced is that
\* of the new current, which is not the zone of the target.
C21_Witness ==
    /\ call.fn = "loop"
    /\ call.delta = Finite(1)
    /\ call.rotated # <<>>
    /\ currentRotation # 0
    /\ 2 * currentRotation = targetRotation
    /\ Resolved(currentRotation) # Resolved(targetRotation)
    /\ currentZone = Resolved(currentRotation)
    /\ call.notified = 1

----------------------------------------------------------------------------
(* Writers of the rotation *)

HandlerCalls ==
    {"keydown", "keyup", "pointerdown", "pointermove", "pointerup",
     "pointercancel", "update"}

\* C22: currentRotation has one writer, App.loop.  Keyboard handlers, pointer
\* handlers and the Controls.update tick change at most direction, dragging,
\* previousPointerX and, through onRotate, targetRotation; they leave
\* currentRotation and the stored active zone as they were.
C22_SingleWriter ==
    [][/\ currentRotation' # currentRotation => call'.fn = "loop"
       /\ call'.fn \in HandlerCalls =>
              /\ currentRotation' = currentRotation
              /\ numberKind'.currentRotation = numberKind.currentRotation
              /\ currentZone' = currentZone
              /\ UNCHANGED <<zones, onRotate, listeners, pc, notifications>>
       /\ call'.fn \in HandlerCalls \ {"pointermove", "update"} =>
              targetRotation' = targetRotation]_vars

\* A pointer move that turned the target while the displayed rotation was
\* already away from zero and away from the target.
C22_Witness ==
    /\ call.fn = "pointermove"
    /\ call.rotated # <<>>
    /\ pc = "running"
    /\ currentRotation # 0
    /\ currentRotation # targetRotation
    /\ currentZone = Resolved(currentRotation)

----------------------------------------------------------------------------
(* Initialisation without locations *)

\* C23: when the location service yields null or an empty list, App.init
\* reports the error and rethrows without retry: the frame loop is never
\* started, the controls are never attached and no zone notification is ever
\* issued.
C23_NoLocations ==
    [][/\ (call'.fn = "init" /\ (call'.locations.isNull
                                   \/ call'.locations.list = <<>>))
              => pc' = "failed"
       /\ pc = "failed" =>
              /\ pc' = "failed"
              /\ call'.fn \notin {"init", "loop"}
              /\ frames' = 0
              /\ listeners' = {}
              /\ onRotate' = "noop"
              /\ notifications' = <<>>
              /\ currentZone' = currentZone
              /\ targetRotation' = 0
              /\ currentRotation' = 0]_vars

\* A pointer move arriving after the failed initialisation: nothing is
\* registered to handle it.
C23_Witness ==
    /\ pc = "failed"
    /\ call.fn = "pointermove"
    /\ ~call.handled
    /\ frames = 0
    /\ notifications = <<>>

----------------------------------------------------------------------------
(* The stored zone follows the displayed rotation *)

\* C24: once App.init has set the initial zone, at the end of every frame, and
\* after every input event between frames, the stored currentZone has the id
\* of the zone getActiveZone returns for the stored currentRotation.
C24_ZoneOfCurrent ==
    pc = "running" =>
        /\ currentZone \in 1..Len(zones)
        /\ zones[currentZone].id = zones[getActiveZone(currentRotation)].id

\* An input event after a frame that left the first zone, with the target in
\* yet another zone.
C24_Witness ==
    /\ pc = "running"
    /\ call.fn \in {"keydown", "keyup", "pointerdown", "pointermove", "pointerup"}
    /\ frames = 2
    /\ currentZone # 1
    /\ currentZone = Resolved(currentRotation)
    /\ Resolved(targetRotation) # currentZone

----------------------------------------------------------------------------
(* Keys held together *)

\* C25: direction is always one of -1, 0, +1, and a key-up of any key bound to
\* the active direction makes it 0 whatever other keys are still down: left,
\* right, then right up gives 0 with left still down, and ArrowLeft, KeyA,
\* then KeyA up gives 0 with ArrowLeft still down.
C25_KeyUpClears ==
    [][/\ direction \in {-1, 0, 1}
       /\ direction' \in {-1, 0, 1}
       /\ (/\ call'.fn = "keyup"
           /\ call'.handled
           /\ direction # 0
           /\ KeyDirection(call'.code) = direction)
              => direction' = 0]_vars

\* KeyA went up while the direction was left and ArrowLeft was still down:
\* the direction is 0.
C25_Witness ==
    /\ call.fn = "keyup"
    /\ call.code = "KeyA"
    /\ call.handled
    /\ observed.directionWas = -1
    /\ "ArrowLeft" \in observed.held
    /\ direction = 0

----------------------------------------------------------------------------
(* A drag adds up to its ends *)

\* C26: for a pointer-down at x0 followed by any number of pointer-moves, with
\* no pointer-down, pointer-up or pointer-cancel between, ending at xn, the
\* deltas passed to onRotate add up to (xn - x0) * 0.005, whatever the number
\* and the positions of the moves between.
C26_Telescopes ==
    dragging =>
        observed.rotatedSum
            = (observed.lastX - observed.dragFrom) * DRAG_SENSITIVITY

\* A drag of two or more moves whose last move alone is not the whole sum.
C26_Witness ==
    /\ dragging
    /\ call.fn = "pointermove"
    /\ observed.moves = 2
    /\ observed.lastX # observed.dragFrom
    /\ observed.rotatedSum # 0
    /\ RotatedSum(call.rotated) # 0
    /\ RotatedSum(call.rotated) # observed.rotatedSum

----------------------------------------------------------------------------
(* The damper does not overshoot *)

\* C27: for every rate > 0 and dt >= 0 the step dampAngle adds to current has
\* the sign of the shortest-path difference and a magnitude no larger than it,
\* so the shortest-path difference to target after the step has the same sign
\* as before, or is zero, and current never passes the target.
C27_NoOvershoot ==
    Called("dampAngle") /\ call.smoothing > 0 /\ call.delta >= 0 =>
        LET difference == call.difference
            added == call.result - call.current
            after == normalizeAngle(call.target - call.result)
        IN /\ difference > 0 => 0 <= added /\ added <= difference
           /\ difference < 0 => difference <= added /\ added <= 0
           /\ difference = 0 => added = 0
           /\ (call.delta > 0 /\ difference # 0) => added # 0
           /\ difference > 0 => after >= 0
           /\ difference < 0 => after <= 0
           /\ after = difference - added

\* From 10 degrees toward 350: the short way is down, and the step went down
\* without reaching the target.
C27_Witness ==
    /\ Called("dampAngle")
    /\ call.smoothing > 0 /\ call.delta > 0
    /\ call.current = Deg(10) /\ call.target = Deg(350)
    /\ call.difference = -Deg(20)
    /\ call.result < Deg(10)
    /\ call.result > -Deg(10)

----------------------------------------------------------------------------
(* A target more than half a turn away *)

\* Where current is headed when the target was moved by more than half a turn
\* and less than a whole one: a full turn before the target, on the side the
\* input came from.
SettlePoint ==
    IF targetRotation > startRotation THEN targetRotation - TWO_PI
    ELSE targetRotation + TWO_PI

\* C28: current and target are never reduced modulo a full turn and damping
\* follows the shortest path, so when one input adds to target a delta of
\* magnitude strictly between pi and 2 pi while current equals the old target,
\* every later frame moves current opposite to that delta, and current
\* approaches the value exactly one full turn away from target, not target;
\* the zone resolved there is the zone of target.
C28_SettlesATurnAway ==
    LET input == targetRotation - startRotation
        magnitude == IF input < 0 THEN -input ELSE input
    IN (/\ Called("dampAngle")
        /\ smoothing > 0
        /\ PI < magnitude /\ magnitude < TWO_PI) =>
           /\ input > 0 => call.result <= call.current
           /\ input < 0 => call.result >= call.current
           /\ delta > 0 => call.result # call.current
           /\ (SettlePoint - currentRotation) * Pow2(frames * smoothing * delta)
                  = SettlePoint - startRotation
           /\ input > 0 => targetRotation - currentRotation >= input
           /\ input < 0 => targetRotation - currentRotation <= input
           /\ getActiveZone(SettlePoint) = getActiveZone(targetRotation)

\* Three frames after the target went from 0 to 270 degrees: current is at
\* -78.75 degrees, an eighth of the way short of -90, and further from 270
\* than it started.
C28_Witness ==
    /\ Called("dampAngle")
    /\ startRotation = 0
    /\ targetRotation = Deg(270)
    /\ smoothing * delta = 1
    /\ frames = 3
    /\ currentRotation < 0
    /\ (SettlePoint - currentRotation) * 8 = -Deg(90)
    /\ getActiveZone(currentRotation) = getActiveZone(targetRotation)

----------------------------------------------------------------------------
(* Keys are sampled by the frame, drags are applied by the event *)

\* C29: keyboard input reaches the target only at frame time, as the direction
\* the frame finds times the frame's delta, so a key-down and its matching
\* key-up between two consecutive frames add nothing; every pointer-move delta
\* received between two frames while dragging is in the target at once,
\* whatever the interleaving of events and frames.
C29_SampledAtFrame ==
    /\ targetRotation = observed.targetAtFrame + observed.draggedSince
    /\ Called("loop") =>
           /\ observed.tick = observed.sampled * ROTATION_SPEED * call.delta.v
           /\ observed.sampled = 0 => observed.tick = 0

\* A frame of one time unit after a tap and a drag: the drag is in the target
\* and the tap is not.
C29_Witness ==
    /\ Called("loop")
    /\ frames = 2
    /\ call.delta = Finite(1)
    /\ observed.tappedBefore
    /\ observed.sampled = 0
    /\ observed.tick = 0
    /\ targetRotation # 0
    /\ direction = 0

----------------------------------------------------------------------------
(* Detaching with a key held *)

\* C30: Controls.detach leaves direction and dragging as they are.  With a
\* rotate key held when detach is called, direction stays non-zero, no later
\* key-up clears it while nothing is attached, and every later update(dt) with
\* dt > 0 still calls onRotate, so the target keeps changing after detach.
C30_DetachKeepsDirection ==
    [][/\ call'.fn = "detach" =>
              /\ direction' = direction
              /\ dragging' = dragging
              /\ onRotate' = onRotate
              /\ listeners' = {}
       /\ (listeners = {} /\ call'.fn \in {"keydown", "keyup"}) =>
              /\ ~call'.handled
              /\ direction' = direction
       /\ (call'.fn = "update" /\ direction # 0 /\ call'.delta.v > 0) =>
              /\ call'.rotated
                     = <<Finite(direction * ROTATION_SPEED * call'.delta.v)>>
              /\ onRotate = "app" => targetRotation' # targetRotation
              /\ direction' = direction]_vars

\* An update after detach with a key still counted as held: nothing is
\* registered, the callback was called and the target has moved.
C30_Witness ==
    /\ Called("update")
    /\ attaches > 0
    /\ listeners = {}
    /\ direction # 0
    /\ call.delta = Finite(1)
    /\ call.rotated # <<>>
    /\ onRotate = "app"
    /\ targetRotation = direction * ROTATION_SPEED

====
